---- MODULE Spec2Model ----
(***************************************************************************)
(* Model of the secure-execution crate (src/secure-execution/src/lib.rs).  *)
(*                                                                         *)
(* requires_secure_execution() memoises requires_secure_execution_uncached *)
(* in a process-wide AtomicUsize (STATE) only accessed with Relaxed       *)
(* loads and stores.  All accesses are to ONE atomic location, and the     *)
(* memory model guarantees a single total modification order per location  *)
(* that every thread's accesses respect (coherence), so every execution is *)
(* an interleaving of atomic load / store steps on one cell.  Each call is *)
(* therefore split at its atomic accesses: load, resolver, store, return.  *)
(***************************************************************************)
EXTENDS Integers, FiniteSets, Sequences, TLC

(* ---------------------------- bounds ----------------------------------- *)
NumThreads == 2
MaxCalls == 2
MaxSig == 2

Threads == 1..NumThreads

(* ---------------------- program constants ------------------------------ *)
FALSE_U == 0
TRUE_U == 1
TODO == 2
AT_SECURE == 23

(* The four cfg_if! branches of requires_secure_execution_uncached.        *)
Platforms == {"auxv", "issetugid", "unix", "other"}

VARIABLES
    platform,     \* the cfg branch the build selected (fixed per process)
    sig,          \* value of the OS primitive (AT_SECURE entry / issetugid())
    STATE_,       \* static STATE: AtomicUsize (STATE is a reserved word)
    pc,           \* per thread: position inside requires_secure_execution
    state,        \* per thread: the local `state` / the value being returned
    calls,        \* per thread: number of calls started
    steps,        \* per thread: own steps taken by the current call
    slow,         \* per thread: the current call took the `_` arm
    sigRead,      \* per thread: primitive value its resolver invocation read
    late,         \* per thread: current call began after a publication
    alone,        \* per thread: no other call was in progress during this one
    resolverCalls,\* number of requires_secure_execution_uncached invocations
    lateResolves, \* number of those made after the first publication
    osQueries,    \* number of getauxval / issetugid invocations
    loadedTodo,   \* number of calls whose load took the `_` arm
    loadCount,    \* number of STATE.load executions
    storeCount,   \* number of STATE.store executions
    published,    \* some call has executed STATE_.store
    stored,       \* set of values ever stored into STATE_
    returned,     \* set of booleans ever returned
    firstRet,     \* <<b>> once the first call has returned b, else <<>>
    last,         \* <<b, alone>> of the most recent return, else <<>>
    overlap,      \* two calls were in progress at the same time
    staleCall,    \* a call began when the primitive disagreed with the cell
    sigChanged    \* the OS primitive changed its value at runtime

vars == <<platform, sig, STATE_, pc, state, calls, steps, slow, sigRead,
          late, alone, resolverCalls, lateResolves, osQueries, loadedTodo,
          loadCount, storeCount, published, stored, returned, firstRet, last,
          overlap, staleCall, sigChanged>>

threadVars == <<pc, state, calls, steps, slow, sigRead, late, alone>>

(* ------------------------- pure functions ------------------------------ *)

(* `state as usize` *)
BoolAsUsize(b) == IF b THEN 1 ELSE 0

(* getauxval(ty): the auxiliary-vector entry of type ty, 0 when absent.    *)
getauxval(ty, v) == IF ty = AT_SECURE THEN v ELSE 0

(* issetugid(): the taint status kept by the kernel.                       *)
issetugid(v) == v

(* Whether the selected cfg branch calls an OS primitive.                  *)
UsesPrimitive(p) == p \in {"auxv", "issetugid"}

(* Values the primitive of a branch can have: getauxval returns a c_ulong  *)
(* (unsigned), issetugid a c_int (signed); the fallbacks read nothing.     *)
PrimVals(p) ==
    CASE p = "auxv"      -> 0..MaxSig
      [] p = "issetugid" -> (-1)..MaxSig
      [] OTHER           -> {0}

(* A resolver that recognises only the documented value 1 as "secure".     *)
UncachedOnlyOne(p, v) ==
    CASE p = "auxv"      -> getauxval(AT_SECURE, v) = 1
      [] p = "issetugid" -> issetugid(v) = 1
      [] p = "unix"      -> TRUE
      [] OTHER           -> FALSE

(* A resolver whose cfg(unix) branch falls through to the last branch.     *)
UncachedUnixFallsThrough(p, v) ==
    CASE p = "auxv"      -> getauxval(AT_SECURE, v) # 0
      [] p = "issetugid" -> issetugid(v) # 0
      [] OTHER           -> FALSE

requires_secure_execution_uncached(p, v) ==
    CASE p = "auxv"      -> getauxval(AT_SECURE, v) # 0
      [] p = "issetugid" -> issetugid(v) # 0
      [] p = "unix"      -> TRUE
      [] OTHER           -> FALSE

(* ----------------------------- Init ------------------------------------ *)
Init ==
    /\ platform \in Platforms
    /\ sig \in PrimVals(platform)
    /\ STATE_ = TODO
    /\ pc = [t \in Threads |-> "idle"]
    /\ state = [t \in Threads |-> FALSE]
    /\ calls = [t \in Threads |-> 0]
    /\ steps = [t \in Threads |-> 0]
    /\ slow = [t \in Threads |-> FALSE]
    /\ sigRead = [t \in Threads |-> 0]
    /\ late = [t \in Threads |-> FALSE]
    /\ alone = [t \in Threads |-> FALSE]
    /\ resolverCalls = 0
    /\ lateResolves = 0
    /\ osQueries = 0
    /\ loadedTodo = 0
    /\ loadCount = 0
    /\ storeCount = 0
    /\ published = FALSE
    /\ stored = {}
    /\ returned = {}
    /\ firstRet = <<>>
    /\ last = <<>>
    /\ overlap = FALSE
    /\ staleCall = FALSE
    /\ sigChanged = FALSE

(* ---------------------------- actions ---------------------------------- *)

(* A thread enters requires_secure_execution().                            *)
Call(t) ==
    /\ pc[t] = "idle"
    /\ calls[t] < MaxCalls
    /\ pc' = [pc EXCEPT ![t] = "load"]
    /\ calls' = [calls EXCEPT ![t] = @ + 1]
    /\ steps' = [steps EXCEPT ![t] = 0]
    /\ slow' = [slow EXCEPT ![t] = FALSE]
    /\ late' = [late EXCEPT ![t] = published]
    /\ staleCall' = (staleCall \/
          (published /\ STATE_ #
              BoolAsUsize(requires_secure_execution_uncached(platform, sig))))
    /\ alone' = [u \in Threads |->
                    IF u = t THEN \A w \in Threads \ {t} : pc[w] = "idle"
                    ELSE IF pc[u] # "idle" THEN FALSE ELSE alone[u]]
    /\ overlap' = (overlap \/ \E u \in Threads \ {t} : pc[u] # "idle")
    /\ UNCHANGED <<platform, sig, STATE_, state, sigRead, resolverCalls,
                   lateResolves, osQueries, loadedTodo, published, stored,
                   returned, firstRet, last, sigChanged,
                   loadCount, storeCount>>

(* A load whose FALSE and TRUE arms are exchanged.                         *)
LoadSwapped(t) ==
    /\ pc[t] = "load"
    /\ steps' = [steps EXCEPT ![t] = @ + 1]
    /\ loadCount' = loadCount + 1
    /\ CASE STATE_ = FALSE_U ->
              /\ state' = [state EXCEPT ![t] = TRUE]
              /\ pc' = [pc EXCEPT ![t] = "ret"]
              /\ UNCHANGED <<slow, loadedTodo>>
         [] STATE_ = TRUE_U ->
              /\ state' = [state EXCEPT ![t] = FALSE]
              /\ pc' = [pc EXCEPT ![t] = "ret"]
              /\ UNCHANGED <<slow, loadedTodo>>
         [] OTHER ->
              /\ pc' = [pc EXCEPT ![t] = "resolve"]
              /\ slow' = [slow EXCEPT ![t] = TRUE]
              /\ loadedTodo' = loadedTodo + 1
              /\ UNCHANGED state
    /\ UNCHANGED <<platform, sig, STATE_, calls, sigRead, late, alone,
                   resolverCalls, lateResolves, osQueries, published,
                   stored, returned, firstRet, last, overlap, staleCall, sigChanged,
                   storeCount>>

(* A load that ignores the cell and always takes the `_` arm.              *)
LoadNoCache(t) ==
    /\ pc[t] = "load"
    /\ steps' = [steps EXCEPT ![t] = @ + 1]
    /\ loadCount' = loadCount + 1
    /\ pc' = [pc EXCEPT ![t] = "resolve"]
    /\ slow' = [slow EXCEPT ![t] = TRUE]
    /\ loadedTodo' = loadedTodo + 1
    /\ UNCHANGED state
    /\ UNCHANGED <<platform, sig, STATE_, calls, sigRead, late, alone,
                   resolverCalls, lateResolves, osQueries, published,
                   stored, returned, firstRet, last, overlap, staleCall, sigChanged,
                   storeCount>>

(* A load that has no FALSE arm: a cached false is resolved again.         *)
LoadFalseMissed(t) ==
    /\ pc[t] = "load"
    /\ steps' = [steps EXCEPT ![t] = @ + 1]
    /\ loadCount' = loadCount + 1
    /\ CASE STATE_ = TRUE_U ->
              /\ state' = [state EXCEPT ![t] = TRUE]
              /\ pc' = [pc EXCEPT ![t] = "ret"]
              /\ UNCHANGED <<slow, loadedTodo>>
         [] OTHER ->
              /\ pc' = [pc EXCEPT ![t] = "resolve"]
              /\ slow' = [slow EXCEPT ![t] = TRUE]
              /\ loadedTodo' = loadedTodo + 1
              /\ UNCHANGED state
    /\ UNCHANGED <<platform, sig, STATE_, calls, sigRead, late, alone,
                   resolverCalls, lateResolves, osQueries, published,
                   stored, returned, firstRet, last, overlap, staleCall, sigChanged,
                   storeCount>>

(* match STATE.load(Relaxed) { FALSE => false, TRUE => true, _ => ... }    *)
Load(t) ==
    /\ pc[t] = "load"
    /\ steps' = [steps EXCEPT ![t] = @ + 1]
    /\ loadCount' = loadCount + 1
    /\ CASE STATE_ = FALSE_U ->
              /\ state' = [state EXCEPT ![t] = FALSE]
              /\ pc' = [pc EXCEPT ![t] = "ret"]
              /\ UNCHANGED <<slow, loadedTodo>>
         [] STATE_ = TRUE_U ->
              /\ state' = [state EXCEPT ![t] = TRUE]
              /\ pc' = [pc EXCEPT ![t] = "ret"]
              /\ UNCHANGED <<slow, loadedTodo>>
         [] OTHER ->
              /\ pc' = [pc EXCEPT ![t] = "resolve"]
              /\ slow' = [slow EXCEPT ![t] = TRUE]
              /\ loadedTodo' = loadedTodo + 1
              /\ UNCHANGED state
    /\ UNCHANGED <<platform, sig, STATE_, calls, sigRead, late, alone,
                   resolverCalls, lateResolves, osQueries, published,
                   stored, returned, firstRet, last, overlap, staleCall, sigChanged,
                   storeCount>>

(* A resolver step that waits while another thread is resolving.          *)
ResolveBlocking(t) ==
    /\ pc[t] = "resolve"
    /\ \A u \in Threads \ {t} : pc[u] \notin {"resolve", "store"}
    /\ steps' = [steps EXCEPT ![t] = @ + 1]
    /\ state' = [state EXCEPT ![t] =
                    requires_secure_execution_uncached(platform, sig)]
    /\ sigRead' = [sigRead EXCEPT ![t] = sig]
    /\ resolverCalls' = resolverCalls + 1
    /\ lateResolves' = lateResolves + (IF published THEN 1 ELSE 0)
    /\ osQueries' = osQueries + (IF UsesPrimitive(platform) THEN 1 ELSE 0)
    /\ pc' = [pc EXCEPT ![t] = "store"]
    /\ UNCHANGED <<platform, sig, STATE_, calls, slow, late, alone,
                   loadedTodo, published, stored, returned, firstRet, last,
                   overlap, staleCall, sigChanged,
                   loadCount, storeCount>>

(* A slow path that returns the resolver's value without storing it.       *)
ResolveNoPublish(t) ==
    /\ pc[t] = "resolve"
    /\ steps' = [steps EXCEPT ![t] = @ + 1]
    /\ state' = [state EXCEPT ![t] =
                    requires_secure_execution_uncached(platform, sig)]
    /\ sigRead' = [sigRead EXCEPT ![t] = sig]
    /\ resolverCalls' = resolverCalls + 1
    /\ lateResolves' = lateResolves + (IF published THEN 1 ELSE 0)
    /\ osQueries' = osQueries + (IF UsesPrimitive(platform) THEN 1 ELSE 0)
    /\ pc' = [pc EXCEPT ![t] = "ret"]
    /\ UNCHANGED <<platform, sig, STATE_, calls, slow, late, alone,
                   loadedTodo, published, stored, returned, firstRet, last,
                   overlap, staleCall, sigChanged,
                   loadCount, storeCount>>

(* let state = requires_secure_execution_uncached();                       *)
Resolve(t) ==
    /\ pc[t] = "resolve"
    /\ steps' = [steps EXCEPT ![t] = @ + 1]
    /\ state' = [state EXCEPT ![t] =
                    requires_secure_execution_uncached(platform, sig)]
    /\ sigRead' = [sigRead EXCEPT ![t] = sig]
    /\ resolverCalls' = resolverCalls + 1
    /\ lateResolves' = lateResolves + (IF published THEN 1 ELSE 0)
    /\ osQueries' = osQueries + (IF UsesPrimitive(platform) THEN 1 ELSE 0)
    /\ pc' = [pc EXCEPT ![t] = "store"]
    /\ UNCHANGED <<platform, sig, STATE_, calls, slow, late, alone,
                   loadedTodo, published, stored, returned, firstRet, last,
                   overlap, staleCall, sigChanged,
                   loadCount, storeCount>>

(* A store that publishes the negation of the resolver's value.           *)
StoreNegated(t) ==
    /\ pc[t] = "store"
    /\ steps' = [steps EXCEPT ![t] = @ + 1]
    /\ STATE_' = BoolAsUsize(~state[t])
    /\ stored' = stored \cup {BoolAsUsize(~state[t])}
    /\ published' = TRUE
    /\ storeCount' = storeCount + 1
    /\ pc' = [pc EXCEPT ![t] = "ret"]
    /\ UNCHANGED <<platform, sig, state, calls, slow, sigRead, late, alone,
                   resolverCalls, lateResolves, osQueries,
                   loadedTodo, returned, firstRet, last, overlap, staleCall, sigChanged,
                   loadCount>>

(* A store that encodes the boolean one too high: false as 1, true as 2.  *)
StoreShifted(t) ==
    /\ pc[t] = "store"
    /\ steps' = [steps EXCEPT ![t] = @ + 1]
    /\ STATE_' = (BoolAsUsize(state[t]) + 1)
    /\ stored' = stored \cup {(BoolAsUsize(state[t]) + 1)}
    /\ published' = TRUE
    /\ storeCount' = storeCount + 1
    /\ pc' = [pc EXCEPT ![t] = "ret"]
    /\ UNCHANGED <<platform, sig, state, calls, slow, sigRead, late, alone,
                   resolverCalls, lateResolves, osQueries,
                   loadedTodo, returned, firstRet, last, overlap, staleCall, sigChanged,
                   loadCount>>

(* A slow path that loads the cell again after it has stored.              *)
StoreThenReload(t) ==
    /\ pc[t] = "store"
    /\ steps' = [steps EXCEPT ![t] = @ + 1]
    /\ STATE_' = BoolAsUsize(state[t])
    /\ stored' = stored \cup {BoolAsUsize(state[t])}
    /\ published' = TRUE
    /\ storeCount' = storeCount + 1
    /\ pc' = [pc EXCEPT ![t] = "load"]
    /\ UNCHANGED <<platform, sig, state, calls, slow, sigRead, late, alone,
                   resolverCalls, lateResolves, osQueries,
                   loadedTodo, returned, firstRet, last, overlap, staleCall, sigChanged,
                   loadCount>>

(* STATE.store(state as usize, Relaxed);                                   *)
Store(t) ==
    /\ pc[t] = "store"
    /\ steps' = [steps EXCEPT ![t] = @ + 1]
    /\ STATE_' = BoolAsUsize(state[t])
    /\ stored' = stored \cup {BoolAsUsize(state[t])}
    /\ published' = TRUE
    /\ storeCount' = storeCount + 1
    /\ pc' = [pc EXCEPT ![t] = "ret"]
    /\ UNCHANGED <<platform, sig, state, calls, slow, sigRead, late, alone,
                   resolverCalls, lateResolves, osQueries,
                   loadedTodo, returned, firstRet, last, overlap, staleCall, sigChanged,
                   loadCount>>

(* A return that hands out the content of the cell instead of the value   *)
(* of the match arm.                                                       *)
ReturnCell(t) ==
    /\ pc[t] = "ret"
    /\ pc' = [pc EXCEPT ![t] = "idle"]
    /\ returned' = returned \cup {STATE_ = TRUE_U}
    /\ firstRet' = IF firstRet = <<>> THEN <<STATE_ = TRUE_U>> ELSE firstRet
    /\ last' = <<STATE_ = TRUE_U, alone[t]>>
    /\ state' = [state EXCEPT ![t] = FALSE]
    /\ steps' = [steps EXCEPT ![t] = 0]
    /\ slow' = [slow EXCEPT ![t] = FALSE]
    /\ sigRead' = [sigRead EXCEPT ![t] = 0]
    /\ late' = [late EXCEPT ![t] = FALSE]
    /\ alone' = [alone EXCEPT ![t] = FALSE]
    /\ UNCHANGED <<platform, sig, STATE_, calls, resolverCalls, lateResolves,
                   osQueries, loadedTodo, published, stored, overlap,
                   staleCall, sigChanged,
                   loadCount, storeCount>>

(* The call returns the value of its match arm to the caller; the frame    *)
(* of the call (its local and its bookkeeping) is gone afterwards.          *)
Return(t) ==
    /\ pc[t] = "ret"
    /\ pc' = [pc EXCEPT ![t] = "idle"]
    /\ returned' = returned \cup {state[t]}
    /\ firstRet' = IF firstRet = <<>> THEN <<state[t]>> ELSE firstRet
    /\ last' = <<state[t], alone[t]>>
    /\ state' = [state EXCEPT ![t] = FALSE]
    /\ steps' = [steps EXCEPT ![t] = 0]
    /\ slow' = [slow EXCEPT ![t] = FALSE]
    /\ sigRead' = [sigRead EXCEPT ![t] = 0]
    /\ late' = [late EXCEPT ![t] = FALSE]
    /\ alone' = [alone EXCEPT ![t] = FALSE]
    /\ UNCHANGED <<platform, sig, STATE_, calls, resolverCalls, lateResolves,
                   osQueries, loadedTodo, published, stored, overlap,
                   staleCall, sigChanged,
                   loadCount, storeCount>>

(* On FreeBSD-like systems the value of issetugid() can change at runtime  *)
(* (the process changed one of its ids); AT_SECURE is fixed at execve.     *)
ChangeSignal ==
    /\ platform = "issetugid"
    /\ \E v \in PrimVals(platform) \ {sig} : sig' = v
    /\ sigChanged' = TRUE
    /\ UNCHANGED <<platform, STATE_, threadVars, resolverCalls, lateResolves,
                   osQueries, loadedTodo, published, stored, returned,
                   firstRet, last, overlap, staleCall,
                   loadCount, storeCount>>

(* The steps a thread takes on its own once it is inside a call.           *)
ThreadStep(t) == Load(t) \/ Resolve(t) \/ Store(t) \/ Return(t)

Next ==
    \/ \E t \in Threads : Call(t)
    \/ \E t \in Threads : Load(t)
    \/ \E t \in Threads : Resolve(t)
    \/ \E t \in Threads : Store(t)
    \/ \E t \in Threads : Return(t)
    \/ ChangeSignal

Spec == Init /\ [][Next]_vars

(* ======================== properties =================================== *)

AllIdle == \A t \in Threads : pc[t] = "idle"
InCall(t) == pc[t] # "idle"

(* C1: once the cell has left Unresolved (TODO) it never changes value     *)
(* again, under any interleaving and even when the OS signal changes       *)
(* between resolver invocations.                                           *)
C1_CellFrozen == [][STATE_ # TODO => STATE_' = STATE_]_vars

(* C2: with an OS signal that is constant for the process, all calls, also *)
(* those racing on the Unresolved cell, return the same boolean.           *)
C2_Convergence ==
    ~sigChanged =>
        /\ Cardinality(returned) <= 1
        /\ \A t \in Threads : pc[t] = "ret" => returned \subseteq {state[t]}
        /\ \A t, u \in Threads :
              pc[t] = "ret" /\ pc[u] = "ret" => state[t] = state[u]

(* Every thread raced through the slow path of its first call, the signal  *)
(* never changed, and all of them have returned.                           *)
C2_Witness ==
    /\ ~sigChanged
    /\ loadedTodo = NumThreads
    /\ resolverCalls = NumThreads
    /\ AllIdle
    /\ \A t \in Threads : calls[t] >= 1
    /\ returned # {}

(* C3: in a run of non-overlapping calls every call returns the boolean    *)
(* the first call returned, even if the OS signal changes between calls.   *)
C3_Idempotence ==
    ~overlap =>
        /\ \A b \in returned : firstRet = <<b>>
        /\ \A t \in Threads :
              pc[t] = "ret" /\ firstRet # <<>> => firstRet = <<state[t]>>

(* A sequential run in which a call began when the signal had changed to  *)
(* a value the resolver maps to the other boolean than the cached one, and *)
(* every call of the run has returned.                                     *)
C3_Witness ==
    /\ ~overlap
    /\ sigChanged
    /\ staleCall
    /\ AllIdle
    /\ \A t \in Threads : calls[t] = MaxCalls
    /\ returned # {}

(* C4: a call that begins after a publication never invokes the resolver;  *)
(* the number of resolver invocations is at most the number of calls that  *)
(* loaded Unresolved, hence at most one per thread however many calls are  *)
(* made.                                                                   *)
C4_FastPathPurity ==
    /\ \A t \in Threads :
          late[t] => ~slow[t] /\ pc[t] \in {"load", "ret"}
    /\ resolverCalls <= loadedTodo
    /\ loadedTodo <= NumThreads

(* Every thread raced on the first resolution, and a later call that began *)
(* after the publication is returning from the fast path.                  *)
C4_Witness ==
    /\ resolverCalls = NumThreads
    /\ \E t \in Threads : late[t] /\ pc[t] = "ret" /\ calls[t] = MaxCalls

(* C5 (as stated): after the first publication the resolver is never       *)
(* invoked again by any thread.                                            *)
C5_NoResolverAfterPublish == lateResolves = 0

(* C5 (amended): after the first publication the resolver is invoked only  *)
(* by calls that began before that publication (the racing first callers), *)
(* never by a call that began after it.                                    *)
C5_ResolverOnlyByRacers ==
    [][(published /\ resolverCalls' # resolverCalls) =>
          \E t \in Threads :
              /\ pc[t] = "resolve"
              /\ pc'[t] # "resolve"
              /\ ~late[t]]_vars

(* A racing first caller has invoked the resolver after another caller's   *)
(* publication; a call that began after the publication took the fast path.*)
C5_Witness ==
    /\ lateResolves > 0
    /\ \E t \in Threads : pc[t] = "store" /\ ~late[t]
    /\ \E u \in Threads : late[u] /\ pc[u] = "ret"

(* C6: a call never blocks and never fails: whatever the other threads do, *)
(* a thread inside a call can take its next step, it takes at most three   *)
(* own steps (load, resolver, store) before it returns, and what it        *)
(* returns is a boolean.                                                   *)
C6_NeverBlocks ==
    \A t \in Threads :
        /\ InCall(t) => ENABLED ThreadStep(t)
        /\ steps[t] <= 3
        /\ pc[t] = "load" => steps[t] = 0
        /\ pc[t] = "resolve" => steps[t] = 1
        /\ pc[t] = "store" => steps[t] = 2
        /\ pc[t] = "ret" => steps[t] \in {1, 3} /\ state[t] \in BOOLEAN

(* Two calls are stalled in the middle of the slow path at the same time.  *)
C6_Witness ==
    \E t, u \in Threads :
        t # u /\ pc[t] = "resolve" /\ pc[u] \in {"resolve", "store"}

(* C7: on the primitive-backed branches the resolver returns true exactly  *)
(* when the primitive's value is non-zero, and the first call returns that *)
(* boolean.                                                                *)
C7_NonZeroIsTrue ==
    UsesPrimitive(platform) =>
        /\ \A v \in PrimVals(platform) :
              requires_secure_execution_uncached(platform, v) = (v # 0)
        /\ \A t \in Threads :
              slow[t] /\ pc[t] \in {"store", "ret"}
                  => state[t] = (sigRead[t] # 0)
        /\ ~sigChanged /\ firstRet # <<>> => firstRet = <<sig # 0>>

(* A first call read a primitive value that is neither 0 nor 1 and is      *)
(* returning true.                                                         *)
C7_Witness ==
    /\ UsesPrimitive(platform)
    /\ \E t \in Threads :
          /\ pc[t] = "ret" /\ slow[t] /\ ~late[t]
          /\ sigRead[t] \notin {0, 1}
          /\ state[t] = TRUE

(* C8: on a branch with neither primitive every call returns true under    *)
(* cfg(unix) and false otherwise, and no OS primitive is ever queried.     *)
C8_Fallback ==
    ~UsesPrimitive(platform) =>
        /\ osQueries = 0
        /\ returned \subseteq {platform = "unix"}
        /\ \A t \in Threads : pc[t] = "ret" => state[t] = (platform = "unix")
        /\ STATE_ \in {TODO, BoolAsUsize(platform = "unix")}

(* On the cfg(unix) fallback every thread has made all its calls, slow and *)
(* fast ones, and all returned true.                                       *)
C8_Witness ==
    /\ platform = "unix"
    /\ AllIdle
    /\ \A t \in Threads : calls[t] = MaxCalls
    /\ returned = {TRUE}
    /\ resolverCalls >= 1

(* C9: with a constant OS signal every value ever stored into the cell is  *)
(* the resolver's result for that signal, so the cell, once published, and *)
(* every return value equal that result whichever store lands last.        *)
C9_WriteOrderIndependence ==
    ~sigChanged =>
        LET r == requires_secure_execution_uncached(platform, sig) IN
        /\ stored \subseteq {BoolAsUsize(r)}
        /\ STATE_ \in {TODO, BoolAsUsize(r)}
        /\ published => STATE_ = BoolAsUsize(r)
        /\ returned \subseteq {r}

(* Every thread has stored its own resolver result into the cell.          *)
C9_Witness ==
    /\ ~sigChanged
    /\ \A t \in Threads : pc[t] = "ret" /\ slow[t]
    /\ stored # {}

(* C10: a slow call stores its resolver's boolean before it returns it:    *)
(* once any call has returned the cell is resolved, and after a call that  *)
(* ran with no concurrent caller the cell holds the value it returned.     *)
C10_PublishBeforeReturn ==
    /\ returned # {} => STATE_ # TODO
    /\ \A t \in Threads :
          pc[t] = "ret" /\ slow[t] =>
              /\ state[t] =
                    requires_secure_execution_uncached(platform, sigRead[t])
              /\ BoolAsUsize(state[t]) \in stored
              /\ STATE_ # TODO
    /\ \A t \in Threads :
          pc[t] = "ret" /\ alone[t] => STATE_ = BoolAsUsize(state[t])
    /\ (last # <<>> /\ last[2] /\ AllIdle) => STATE_ = BoolAsUsize(last[1])

(* A slow call that ran with no concurrent caller has returned and no call *)
(* has begun since.                                                        *)
C10_Witness ==
    /\ AllIdle
    /\ last # <<>> /\ last[2]
    /\ resolverCalls = 1
    /\ \E t \in Threads : calls[t] = 1 /\ \A u \in Threads \ {t} : calls[u] = 0

(* C11: a call that loads False or True returns exactly the loaded value,  *)
(* does not write the cell and does not invoke the resolver: none of its   *)
(* steps changes the cell, the store count or the resolver-invocation      *)
(* count.                                                                  *)
C11_FastPathFrame ==
    [][\A t \in Threads :
          /\ (pc[t] = "load" /\ pc'[t] # "load" /\ STATE_ \in {FALSE_U, TRUE_U})
                => /\ pc'[t] = "ret"
                   /\ ~slow'[t]
                   /\ state'[t] = (STATE_ = TRUE_U)
                   /\ STATE_' = STATE_
                   /\ storeCount' = storeCount
                   /\ resolverCalls' = resolverCalls
                   /\ osQueries' = osQueries
          /\ (pc[t] = "ret" /\ ~slow[t] /\ pc'[t] = "idle")
                => /\ last'[1] = state[t]
                   /\ state[t] \in returned'
                   /\ steps[t] = 1
                   /\ STATE_' = STATE_
                   /\ storeCount' = storeCount
                   /\ resolverCalls' = resolverCalls
                   /\ osQueries' = osQueries]_vars

(* A call that began after a publication loaded the published value and is *)
(* about to return it after a single step.                                 *)
C11_Witness ==
    \E t \in Threads :
        /\ pc[t] = "ret" /\ ~slow[t] /\ late[t]
        /\ steps[t] = 1
        /\ STATE_ = BoolAsUsize(state[t])
        /\ storeCount >= 1

(* C12: the cell starts as TODO (2) and every store writes FALSE (0) or    *)
(* TRUE (1): the cell is always in {0, 1, 2} and once it is 0 or 1 it is   *)
(* never 2 again, under any interleaving and also when the OS signal       *)
(* changes at runtime.                                                     *)
C12_NeverBackToTodo ==
    [][/\ STATE_ \in {FALSE_U, TRUE_U, TODO}
       /\ STATE_' \in {FALSE_U, TRUE_U, TODO}
       /\ ~published => STATE_ = TODO
       /\ stored' \subseteq {FALSE_U, TRUE_U}
       /\ storeCount' # storeCount => STATE_' \in {FALSE_U, TRUE_U}
       /\ STATE_ # TODO => STATE_' # TODO]_vars

(* Racing callers have stored both booleans, one over the other, after the *)
(* signal changed; the cell is still resolved.                             *)
C12_Witness ==
    /\ sigChanged
    /\ stored = {FALSE_U, TRUE_U}
    /\ storeCount >= 2
    /\ STATE_ \in {FALSE_U, TRUE_U}

(* C13: a call that loaded Unresolved returns the boolean its own resolver *)
(* invocation produced, also when another thread has stored a different    *)
(* value into the cell in the meantime; it loads the cell only once.       *)
C13_ReturnsOwnResult ==
    [][\A t \in Threads :
          /\ (slow[t] /\ pc[t] \in {"store", "ret"} /\ pc'[t] \in {"store", "ret"})
                => state'[t] = state[t]
          /\ (slow[t] /\ pc[t] \in {"store", "ret"})
                => /\ state[t] =
                        requires_secure_execution_uncached(platform, sigRead[t])
                   /\ pc'[t] # "load"
                   /\ loadCount' # loadCount => pc'[t] = pc[t]
          /\ (slow[t] /\ pc[t] = "ret" /\ pc'[t] = "idle")
                => /\ last'[1] =
                        requires_secure_execution_uncached(platform, sigRead[t])
                   /\ last'[1] \in returned']_vars

(* A slow call is about to return its own resolver result while the cell   *)
(* holds the other boolean, stored by a racing caller.                     *)
C13_Witness ==
    \E t \in Threads :
        /\ pc[t] = "ret" /\ slow[t]
        /\ state[t] = requires_secure_execution_uncached(platform, sigRead[t])
        /\ STATE_ \in {FALSE_U, TRUE_U}
        /\ STATE_ # BoolAsUsize(state[t])

(* Number of calls started by threads 1..n, and of threads at a position.  *)
RECURSIVE CallsUpTo(_)
CallsUpTo(n) == IF n = 0 THEN 0 ELSE calls[n] + CallsUpTo(n - 1)
At(where) == Cardinality({t \in Threads : pc[t] = where})

(* C14: each call loads the cell exactly once, invokes the resolver at     *)
(* most once and stores at most once; it stores if and only if it invoked  *)
(* the resolver, after the resolver returned and before the call returns,  *)
(* and the value stored is the resolver's result.                          *)
C14_StepDiscipline ==
    /\ loadCount = CallsUpTo(NumThreads) - At("load")
    /\ resolverCalls = loadedTodo - At("resolve")
    /\ storeCount = resolverCalls - At("store")
    /\ resolverCalls <= loadCount
    /\ \A t \in Threads :
          /\ pc[t] = "load" => steps[t] = 0 /\ ~slow[t]
          /\ pc[t] = "resolve" => steps[t] = 1 /\ slow[t]
          /\ pc[t] = "store" =>
                /\ steps[t] = 2 /\ slow[t]
                /\ state[t] =
                      requires_secure_execution_uncached(platform, sigRead[t])
          /\ pc[t] = "ret" /\ slow[t] =>
                /\ steps[t] = 3
                /\ BoolAsUsize(requires_secure_execution_uncached(
                                   platform, sigRead[t])) \in stored
          /\ pc[t] = "ret" /\ ~slow[t] => steps[t] = 1

(* Every thread has made all its calls, slow and fast ones: as many stores *)
(* as resolver invocations, one load per call.                             *)
C14_Witness ==
    /\ AllIdle
    /\ \A t \in Threads : calls[t] = MaxCalls
    /\ loadCount = NumThreads * MaxCalls
    /\ resolverCalls = NumThreads
    /\ storeCount = NumThreads

====
